---------------------------- MODULE Spec2Model ----------------------------
(***************************************************************************)
(* Model of homework.py: the fitness-tracker module.  read_package builds  *)
(* one of the Training variants from a type code and a list of sensor      *)
(* readings, show_training_info computes the InfoMessage record and        *)
(* get_message renders it.                                                 *)
(*                                                                         *)
(* Numbers.  Python computes with binary floating point; the model         *)
(* computes the same expressions, in the same order, over exact            *)
(* non-negative rationals n/d.  Numerators and denominators are unbounded  *)
(* naturals kept as little-endian sequences of base-Base limbs, so that no *)
(* intermediate product leaves TLC's 32-bit integers.  Rounding            *)
(* error of the floating-point operations is not modelled.                 *)
(***************************************************************************)
EXTENDS Naturals, Sequences, FiniteSets

(***************************************************************************)
(* Unbounded naturals.  <<>> is zero; the last limb is never zero.         *)
(***************************************************************************)
Base == 100 * 100

RECURSIVE BFromNat(_)
BFromNat(x) == IF x = 0 THEN <<>> ELSE <<x % Base>> \o BFromNat(x \div Base)

RECURSIVE BToNat(_)
BToNat(a) == IF a = <<>> THEN 0 ELSE Head(a) + Base * BToNat(Tail(a))

BRest(a) == IF a = <<>> THEN <<>> ELSE Tail(a)

BLow(a) == IF a = <<>> THEN 0 ELSE Head(a)

RECURSIVE BAddC(_, _, _)
BAddC(a, b, c) ==
    IF a = <<>> /\ b = <<>>
    THEN IF c = 0 THEN <<>> ELSE <<c>>
    ELSE IF b = <<>> /\ c = 0
    THEN a
    ELSE LET x == BLow(a) + BLow(b) + c
         IN  <<x % Base>> \o BAddC(BRest(a), BRest(b), x \div Base)

BAdd(a, b) == BAddC(a, b, 0)

\* a * k + c for one limb k in 1..Base-1 and a carry c < Base
RECURSIVE BMulS(_, _, _)
BMulS(a, k, c) ==
    IF a = <<>>
    THEN IF c = 0 THEN <<>> ELSE <<c>>
    ELSE LET x == Head(a) * k + c
         IN  <<x % Base>> \o BMulS(Tail(a), k, x \div Base)

BShift(a) == IF a = <<>> THEN <<>> ELSE <<0>> \o a

RECURSIVE BMul(_, _)
BMul(a, b) ==
    IF a = <<>> \/ b = <<>>
    THEN <<>>
    ELSE BAdd(IF Head(b) = 0 THEN <<>> ELSE BMulS(a, Head(b), 0),
              BShift(BMul(a, Tail(b))))

\* the sign of a - b, limbs compared from the most significant one
RECURSIVE BCmpAt(_, _, _)
BCmpAt(a, b, i) ==
    IF i = 0 THEN 0
    ELSE IF a[i] < b[i] THEN 0 - 1
    ELSE IF a[i] > b[i] THEN 1
    ELSE BCmpAt(a, b, i - 1)

BCmp(a, b) ==
    IF Len(a) < Len(b) THEN 0 - 1
    ELSE IF Len(a) > Len(b) THEN 1
    ELSE BCmpAt(a, b, Len(a))

BLeq(a, b) == BCmp(a, b) <= 0

RECURSIVE BStrip(_)
BStrip(a) ==
    IF a = <<>> THEN <<>>
    ELSE IF a[Len(a)] = 0 THEN BStrip(SubSeq(a, 1, Len(a) - 1))
    ELSE a

\* a - b - c for a >= b + c, limb by limb with borrow c
RECURSIVE BSubC(_, _, _)
BSubC(a, b, c) ==
    IF a = <<>> THEN <<>>
    ELSE IF b = <<>> /\ c = 0 THEN a
    ELSE LET x == Head(a) + Base - BLow(b) - c
         IN  <<x % Base>> \o BSubC(Tail(a), BRest(b), 1 - (x \div Base))

BSub(a, b) == BStrip(BSubC(a, b, 0))

BTimes(a, k) == IF k = 0 THEN <<>> ELSE BMulS(a, k, 0)

\* the largest limb t in lo..hi with b * t <= r (b * lo <= r is given)
RECURSIVE BDigit(_, _, _, _)
BDigit(r, b, lo, hi) ==
    IF lo = hi THEN lo
    ELSE LET mid == (lo + hi + 1) \div 2
         IN  IF BLeq(BTimes(b, mid), r)
             THEN BDigit(r, b, mid, hi)
             ELSE BDigit(r, b, lo, mid - 1)

\* schoolbook long division of a by b # 0, from limb i of a downwards
RECURSIVE BDivAt(_, _, _, _, _)
BDivAt(a, b, i, q, r) ==
    IF i = 0 THEN [quot |-> BStrip(q), rem |-> r]
    ELSE LET r1 == IF r = <<>> /\ a[i] = 0 THEN <<>> ELSE <<a[i]>> \o r
             t  == BDigit(r1, b, 0, Base - 1)
         IN  BDivAt(a, b, i - 1, <<t>> \o q, BSub(r1, BTimes(b, t)))

BDivMod(a, b) == BDivAt(a, b, Len(a), <<>>, <<>>)


(***************************************************************************)
(* Python values.  A value is a number n/d, None, or a missing attribute;  *)
(* the result of an expression is a value or a raised exception e.         *)
(***************************************************************************)
Number(n, d) == [k |-> "num", n |-> n, d |-> d, e |-> ""]

Int(x) == Number(BFromNat(x), <<1>>)

\* the decimal literal x / scale, e.g. 0.65 is Dec(65, 100)
Dec(x, scale) == Number(BFromNat(x), BFromNat(scale))

None == [k |-> "None", n |-> <<>>, d |-> <<>>, e |-> ""]

Absent == [k |-> "absent", n |-> <<>>, d |-> <<>>, e |-> ""]

Raise(e) == [k |-> "exc", n |-> <<>>, d |-> <<>>, e |-> e]

IsNum(v) == v.k = "num"

IsExc(v) == v.k = "exc"

IsZero(v) == v.n = <<>>

\* a op b: the operands are evaluated left to right, an exception of either
\* propagates, and an operand that is no number raises TypeError
Operands(a, b, result) ==
    IF IsExc(a) THEN a
    ELSE IF IsExc(b) THEN b
    ELSE IF ~IsNum(a) \/ ~IsNum(b) THEN Raise("TypeError")
    ELSE result

Mul(a, b) == Operands(a, b, Number(BMul(a.n, b.n), BMul(a.d, b.d)))

Add(a, b) ==
    Operands(a, b, Number(BAdd(BMul(a.n, b.d), BMul(b.n, a.d)), BMul(a.d, b.d)))

Div(a, b) ==
    Operands(a, b, IF IsZero(b) THEN Raise("ZeroDivisionError")
                   ELSE Number(BMul(a.n, b.d), BMul(a.d, b.n)))

\* a ** 2
Square(a) == Mul(a, a)

\* numeric equality and order of two numbers
NumEq(a, b) == BMul(a.n, b.d) = BMul(b.n, a.d)

NumLeq(a, b) == BLeq(BMul(a.n, b.d), BMul(b.n, a.d))

(***************************************************************************)
(* class Training and its variants.  An instance is a record of its class  *)
(* name and attributes; an attribute its class does not set is Absent.     *)
(***************************************************************************)
Training_LEN_STEP == Dec(65, 100)

M_IN_KM == Int(1000)

MIN_IN_H == Int(60)

CALORIES_RUNNING_MULTIPLIER == Int(18)

CALORIES_RUNNING_SHIFT == Dec(179, 100)

CALORIES_WEIGHT_MULTIPLIER == Dec(35, 1000)

CALORIES_SPEED_HEIGHT_MULTIPLIER == Dec(29, 1000)

KMH_IN_MSEC == Dec(278, 1000)

CM_IN_M == Int(100)

Swimming_LEN_STEP == Dec(138, 100)

CALORIES_MEAN_SPEED_SHIFT == Dec(11, 10)

Swimming_CALORIES_WEIGHT_MULTIPLIER == Int(2)

\* variant: Swimming does not override LEN_STEP
LEN_STEP_base(self) == Training_LEN_STEP

\* self.LEN_STEP: the attribute of the instance's class, else of the base
LEN_STEP(self) ==
    IF self.cls = "Swimming" THEN Swimming_LEN_STEP ELSE Training_LEN_STEP

NoObject ==
    [cls |-> "", action |-> Absent, duration |-> Absent, weight |-> Absent,
     height |-> Absent, length_pool |-> Absent, count_pool |-> Absent]

Training_init(cls, action, duration, weight) ==
    [NoObject EXCEPT !.cls = cls, !.action = action, !.duration = duration,
                     !.weight = weight]

SportsWalking_init(cls, action, duration, weight, height) ==
    [Training_init(cls, action, duration, weight) EXCEPT !.height = height]

\* variant: the two pool attributes are assigned crosswise
Swimming_init_swapped(cls, action, duration, weight, length_pool, count_pool) ==
    [Training_init(cls, action, duration, weight)
        EXCEPT !.length_pool = count_pool, !.count_pool = length_pool]

Swimming_init(cls, action, duration, weight, length_pool, count_pool) ==
    [Training_init(cls, action, duration, weight)
        EXCEPT !.length_pool = length_pool, !.count_pool = count_pool]

get_distance(self) == Div(Mul(self.action, LEN_STEP(self)), M_IN_KM)

\* variant: the mean speed is guarded against a zero duration
Training_get_mean_speed_guarded(self) ==
    IF IsNum(self.duration) /\ IsZero(self.duration)
    THEN Int(0)
    ELSE Div(get_distance(self), self.duration)

Training_get_mean_speed(self) == Div(get_distance(self), self.duration)

Swimming_get_mean_speed(self) ==
    Div(Div(Mul(self.length_pool, self.count_pool), M_IN_KM), self.duration)

\* variant: Swimming does not override get_mean_speed
get_mean_speed_base(self) == Training_get_mean_speed(self)

get_mean_speed(self) ==
    IF self.cls = "Swimming"
    THEN Swimming_get_mean_speed(self)
    ELSE Training_get_mean_speed(self)

Training_get_spent_calories(self) == Raise("NotImplementedError")

\* variant: the duration is left in hours
Running_get_spent_calories_hours(self) ==
    Mul(Div(Mul(Add(Mul(CALORIES_RUNNING_MULTIPLIER, get_mean_speed(self)),
                    CALORIES_RUNNING_SHIFT),
                self.weight),
            M_IN_KM),
        self.duration)

Running_get_spent_calories(self) ==
    Mul(Div(Mul(Add(Mul(CALORIES_RUNNING_MULTIPLIER, get_mean_speed(self)),
                    CALORIES_RUNNING_SHIFT),
                self.weight),
            M_IN_KM),
        Mul(self.duration, MIN_IN_H))

\* variant: the speed in m/s is not squared
SportsWalking_get_spent_calories_linear(self) ==
    Mul(Add(Mul(CALORIES_WEIGHT_MULTIPLIER, self.weight),
            Mul(Mul(Div(Mul(get_mean_speed(self), KMH_IN_MSEC),
                        Div(self.height, CM_IN_M)),
                    CALORIES_SPEED_HEIGHT_MULTIPLIER),
                self.weight)),
        Mul(self.duration, MIN_IN_H))

SportsWalking_get_spent_calories(self) ==
    Mul(Add(Mul(CALORIES_WEIGHT_MULTIPLIER, self.weight),
            Mul(Mul(Div(Square(Mul(get_mean_speed(self), KMH_IN_MSEC)),
                        Div(self.height, CM_IN_M)),
                    CALORIES_SPEED_HEIGHT_MULTIPLIER),
                self.weight)),
        Mul(self.duration, MIN_IN_H))

Swimming_get_spent_calories(self) ==
    Mul(Mul(Mul(Add(get_mean_speed(self), CALORIES_MEAN_SPEED_SHIFT),
                Swimming_CALORIES_WEIGHT_MULTIPLIER),
            self.weight),
        self.duration)

\* variant: Swimming does not override get_spent_calories
get_spent_calories_unoverridden(self) ==
    CASE self.cls = "Running" -> Running_get_spent_calories(self)
      [] self.cls = "SportsWalking" -> SportsWalking_get_spent_calories(self)
      [] OTHER -> Training_get_spent_calories(self)

get_spent_calories(self) ==
    CASE self.cls = "Running" -> Running_get_spent_calories(self)
      [] self.cls = "SportsWalking" -> SportsWalking_get_spent_calories(self)
      [] self.cls = "Swimming" -> Swimming_get_spent_calories(self)
      [] OTHER -> Training_get_spent_calories(self)

(***************************************************************************)
(* class InfoMessage and show_training_info.                               *)
(***************************************************************************)
NoInfo ==
    [training_type |-> "", duration |-> Absent, distance |-> Absent,
     speed |-> Absent, calories |-> Absent]

InfoMessage(training_type, duration, distance, speed, calories) ==
    [training_type |-> training_type, duration |-> duration,
     distance |-> distance, speed |-> speed, calories |-> calories]

\* the constructor's arguments are evaluated in order; the first exception
\* propagates and no record is built
show_training_info(self) ==
    LET distance == get_distance(self)
        speed    == get_mean_speed(self)
        calories == get_spent_calories(self)
    IN  IF IsExc(distance) THEN [exc |-> distance.e, info |-> NoInfo]
        ELSE IF IsExc(speed) THEN [exc |-> speed.e, info |-> NoInfo]
        ELSE IF IsExc(calories) THEN [exc |-> calories.e, info |-> NoInfo]
        ELSE [exc |-> "",
              info |-> InfoMessage(self.cls, self.duration, distance, speed,
                                   calories)]

(***************************************************************************)
(* get_message.  A string is the sequence of its pieces: the template's    *)
(* literal texts (the source's Russian labels, transliterated), the type   *)
(* name, and for a number one piece per character.                         *)
(***************************************************************************)
DigitChar == <<"0", "1", "2", "3", "4", "5", "6", "7", "8", "9">>

RECURSIVE BDecimal(_)
BDecimal(a) ==
    IF a = <<>> THEN <<>>
    ELSE LET qr == BDivMod(a, <<10>>)
         IN  BDecimal(qr.quot) \o <<DigitChar[BToNat(qr.rem) + 1]>>

\* variant: two digits after the point
FixedText_2f(t) ==
    LET qr == BDivMod(t, BFromNat(1000))
        f  == BToNat(qr.rem)
    IN  (IF qr.quot = <<>> THEN <<"0">> ELSE BDecimal(qr.quot))
        \o <<".", DigitChar[(f \div 100) + 1], DigitChar[((f \div 10) % 10) + 1]>>

\* the number whose thousandths are t, as d...d.ddd
FixedText(t) ==
    LET qr == BDivMod(t, BFromNat(1000))
        f  == BToNat(qr.rem)
    IN  (IF qr.quot = <<>> THEN <<"0">> ELSE BDecimal(qr.quot))
        \o <<".", DigitChar[(f \div 100) + 1], DigitChar[((f \div 10) % 10) + 1],
             DigitChar[(f % 10) + 1]>>

\* format(v, '.3f'): v rounded to the nearest thousandth.  The float nearest
\* to a value half-way between two thousandths may lie on either side of
\* it, so both neighbours are possible renderings there.
Format3f(v) ==
    LET qr    == BDivMod(BMul(v.n, BFromNat(1000)), v.d)
        c     == BCmp(BAdd(qr.rem, qr.rem), v.d)
        below == FixedText(qr.quot)
        above == FixedText(BAdd(qr.quot, <<1>>))
    IN  IF c < 0 THEN {below} ELSE IF c > 0 THEN {above} ELSE {below, above}

LabelType == "Tip trenirovki: "

LabelDuration == "; Dlitelnost: "

LabelDistance == " ch.; Distantsiya: "

LabelSpeed == " km; Sr. skorost: "

LabelCalories == " km/ch; Potracheno kkal: "

LabelEnd == "."

\* the f-string of get_message; a field that is no number cannot be formatted
get_message(self) ==
    IF \E v \in {self.duration, self.distance, self.speed, self.calories} :
          ~IsNum(v)
    THEN {[exc |-> "TypeError", text |-> <<>>]}
    ELSE {[exc |-> "",
           text |-> <<LabelType, self.training_type, LabelDuration>> \o du
                    \o <<LabelDistance>> \o di \o <<LabelSpeed>> \o sp
                    \o <<LabelCalories>> \o ca \o <<LabelEnd>>] :
            du \in Format3f(self.duration), di \in Format3f(self.distance),
            sp \in Format3f(self.speed), ca \in Format3f(self.calories)}

(***************************************************************************)
(* read_package and the table of workout types.                            *)
(***************************************************************************)
WORKOUT_TYPES ==
    [c \in {"RUN", "WLK", "SWM"} |->
        CASE c = "RUN" -> "Running"
          [] c = "WLK" -> "SportsWalking"
          [] c = "SWM" -> "Swimming"]

\* the number of positional parameters of cls.__init__, self apart
Arity(cls) ==
    CASE cls = "SportsWalking" -> 4
      [] cls = "Swimming" -> 5
      [] OTHER -> 3

\* variant: the constructor rejects an argument that is no number
New_typechecked(cls, args) ==
    IF Len(args) # Arity(cls) \/ \E i \in 1..Len(args) : ~IsNum(args[i])
    THEN [exc |-> "TypeError", obj |-> NoObject]
    ELSE [exc |-> "",
          obj |-> CASE cls = "SportsWalking" ->
                         SportsWalking_init(cls, args[1], args[2], args[3],
                                            args[4])
                    [] cls = "Swimming" ->
                         Swimming_init(cls, args[1], args[2], args[3], args[4],
                                       args[5])
                    [] OTHER -> Training_init(cls, args[1], args[2], args[3])]

\* cls called on the elements of data: too few or too many raise TypeError
New(cls, args) ==
    IF Len(args) # Arity(cls)
    THEN [exc |-> "TypeError", obj |-> NoObject]
    ELSE [exc |-> "",
          obj |-> CASE cls = "SportsWalking" ->
                         SportsWalking_init(cls, args[1], args[2], args[3],
                                            args[4])
                    [] cls = "Swimming" ->
                         Swimming_init(cls, args[1], args[2], args[3], args[4],
                                       args[5])
                    [] OTHER -> Training_init(cls, args[1], args[2], args[3])]

\* variant: the except clause catches KeyError alone
Caught_KeyErrorOnly == {"KeyError"}

\* the exceptions the except clause of read_package catches
Caught == {"KeyError", "TypeError"}

read_package(code, args) ==
    LET r == IF code \in DOMAIN WORKOUT_TYPES
             THEN New(WORKOUT_TYPES[code], args)
             ELSE [exc |-> "KeyError", obj |-> NoObject]
    IN  IF r.exc \in Caught
        THEN [exc |-> "InvalidInputDataError", cause |-> r.exc, obj |-> NoObject]
        ELSE [exc |-> r.exc, cause |-> "", obj |-> r.obj]

(***************************************************************************)
(* Inputs.                                                                 *)
(***************************************************************************)
\* the longest argument list tried
MaxArgs == 6

\* the readings tried in every position, besides those of the script
Readings == {None, Int(0), Int(1), Int(2)}

Codes == {"RUN", "WLK", "SWM", "XYZ"}

ArgLists == UNION {[1..n -> Readings] : n \in 0..MaxArgs}

\* the packages of the script
packages ==
    {<<"SWM", <<Int(720), Int(1), Int(80), Int(25), Int(40)>>>>,
     <<"RUN", <<Int(15000), Int(1), Int(75)>>>>,
     <<"WLK", <<Int(9000), Int(1), Int(75), Int(180)>>>>}

(***************************************************************************)
(* The state: the last call made and what it left behind.                  *)
(***************************************************************************)
VARIABLES
    call,          \* the last call made; "start" before the first
    workout_type,  \* read_package's arguments; "" while it was not called
    data,
    training,      \* the instance built, NoObject if none
    ret,           \* the number the last getter returned
    info,          \* the InfoMessage built, NoInfo if none
    message,       \* the string get_message returned
    error,         \* the exception the last call raised, "" if none
    cause          \* the exception an InvalidInputDataError wraps

vars == <<call, workout_type, data, training, ret, info, message, error, cause>>

Init ==
    /\ call = "start"
    /\ workout_type = ""
    /\ data = <<>>
    /\ training = NoObject
    /\ ret = Absent
    /\ info = NoInfo
    /\ message = <<>>
    /\ error = ""
    /\ cause = ""

ReadPackage ==
    /\ call = "start"
    /\ \E p \in packages \cup (Codes \X ArgLists) :
          LET r == read_package(p[1], p[2])
          IN  /\ workout_type' = p[1]
              /\ data' = p[2]
              /\ training' = r.obj
              /\ error' = r.exc
              /\ cause' = r.cause
    /\ call' = "read_package"
    /\ UNCHANGED <<ret, info, message>>

\* Training(action, duration, weight): the base class built directly
NewTraining ==
    /\ call = "start"
    /\ \E args \in [1..3 -> Readings] :
          LET r == New("Training", args)
          IN  /\ data' = args
              /\ training' = r.obj
              /\ error' = r.exc
    /\ call' = "Training"
    /\ UNCHANGED <<workout_type, ret, info, message, cause>>

Built == call \in {"read_package", "Training"} /\ error = ""

Getter(name, v) ==
    /\ Built
    /\ call' = name
    /\ error' = v.e
    /\ ret' = IF IsExc(v) THEN Absent ELSE v
    /\ UNCHANGED <<workout_type, data, training, info, message, cause>>

GetDistance == Getter("get_distance", get_distance(training))

GetMeanSpeed == Getter("get_mean_speed", get_mean_speed(training))

GetSpentCalories == Getter("get_spent_calories", get_spent_calories(training))

ShowTrainingInfo ==
    /\ Built
    /\ LET r == show_training_info(training)
       IN  /\ info' = r.info
           /\ error' = r.exc
    /\ call' = "show_training_info"
    /\ UNCHANGED <<workout_type, data, training, ret, message, cause>>

GetMessage ==
    /\ call = "show_training_info"
    /\ error = ""
    /\ \E r \in get_message(info) :
          /\ message' = r.text
          /\ error' = r.exc
    /\ call' = "get_message"
    /\ UNCHANGED <<workout_type, data, training, ret, info, cause>>

\* main returns after printing and the script's loop takes its next package
NextPackage ==
    /\ call = "get_message"
    /\ error = ""
    /\ call' = "start"
    /\ workout_type' = ""
    /\ data' = <<>>
    /\ training' = NoObject
    /\ info' = NoInfo
    /\ message' = <<>>
    /\ UNCHANGED <<ret, error, cause>>

Next ==
    \/ ReadPackage
    \/ NewTraining
    \/ GetDistance
    \/ GetMeanSpeed
    \/ GetSpentCalories
    \/ ShowTrainingInfo
    \/ GetMessage
    \/ NextPackage

Spec == Init /\ [][Next]_vars

(***************************************************************************)
(* Vocabulary of the properties.                                           *)
(***************************************************************************)
Recognized == {"RUN", "WLK", "SWM"}

ExpectedArity(code) ==
    CASE code = "RUN" -> 3 [] code = "WLK" -> 4 [] code = "SWM" -> 5

ExpectedClass(code) ==
    CASE code = "RUN" -> "Running"
      [] code = "WLK" -> "SportsWalking"
      [] code = "SWM" -> "Swimming"

Variants == {"Running", "SportsWalking", "Swimming"}

\* read_package was called with a recognized code and as many arguments as
\* the variant's constructor takes
RightLength ==
    workout_type \in Recognized /\ Len(data) = ExpectedArity(workout_type)

AllNumbers == \A i \in 1..Len(data) : IsNum(data[i])

Positive(v) == IsNum(v) /\ ~IsZero(v)

\* whole + frac / scale
Decimal(whole, frac, scale) == Add(Int(whole), Dec(frac, scale))

\* |a - b| <= tol, for numbers
Near(a, b, tol) == NumLeq(a, Add(b, tol)) /\ NumLeq(b, Add(a, tol))

ExpectedObject ==
    [cls |-> ExpectedClass(workout_type),
     action |-> data[1], duration |-> data[2], weight |-> data[3],
     height |-> IF workout_type = "WLK" THEN data[4] ELSE Absent,
     length_pool |-> IF workout_type = "SWM" THEN data[4] ELSE Absent,
     count_pool |-> IF workout_type = "SWM" THEN data[5] ELSE Absent]

(***************************************************************************)
(* C1.  read_package raises InvalidInputDataError and returns no instance  *)
(* for every unrecognized code, whatever the data, and for every           *)
(* recognized code whose data has fewer or more elements than the          *)
(* variant's constructor takes (3 for RUN, 4 for WLK, 5 for SWM).  The     *)
(* error wraps the KeyError or the TypeError that caused it.               *)
(***************************************************************************)
C1_InvalidInput ==
    (workout_type # "" /\ ~RightLength) =>
        /\ call = "read_package"
        /\ error = "InvalidInputDataError"
        /\ cause = (IF workout_type \in Recognized THEN "TypeError" ELSE "KeyError")
        /\ training = NoObject
        /\ info = NoInfo

C1_Witness ==
    /\ workout_type = "RUN"
    /\ Len(data) = 2
    /\ error = "InvalidInputDataError"
    /\ training = NoObject

(***************************************************************************)
(* C2.  For a recognized code and a data list of the matching length,      *)
(* read_package raises nothing and returns an instance of the mapped class *)
(* (RUN Running, WLK SportsWalking, SWM Swimming) whose attributes are the *)
(* list's elements in order: action, duration, weight, then height for     *)
(* walking, or length_pool and count_pool for swimming.                    *)
(***************************************************************************)
C2_Positional ==
    (workout_type # "" /\ RightLength) =>
        /\ call = "read_package" => error = ""
        /\ error # "InvalidInputDataError"
        /\ training = ExpectedObject

C2_Witness ==
    /\ call = "read_package"
    /\ workout_type = "SWM"
    /\ Len(data) = 5
    /\ data[4] # data[5]
    /\ error = ""
    /\ training.cls = "Swimming"
    /\ training.length_pool = data[4]
    /\ training.count_pool = data[5]

(***************************************************************************)
(* C3.  As claimed: with a recognized code and the right length, an        *)
(* argument that is no number makes read_package raise                     *)
(* InvalidInputDataError and return no instance.                           *)
(***************************************************************************)
C3_TypeMismatchRejected ==
    (workout_type # "" /\ RightLength /\ ~AllNumbers) =>
        /\ error = "InvalidInputDataError"
        /\ training = NoObject

(***************************************************************************)
(* C3, amended.  read_package does not look at the types: with a           *)
(* recognized code and the right length it raises nothing and returns the  *)
(* instance with the non-numeric value stored as given.  The mismatch      *)
(* shows only later, in a computation that uses the value:                 *)
(* show_training_info builds no record and raises TypeError, or the        *)
(* ZeroDivisionError of a zero duration met first; neither is, or is       *)
(* turned into, an InvalidInputDataError.                                  *)
(***************************************************************************)
C3_TypeMismatchAccepted ==
    (workout_type # "" /\ RightLength /\ ~AllNumbers) =>
        /\ call = "read_package" => error = ""
        /\ training = ExpectedObject
        /\ error # "InvalidInputDataError"
        /\ cause = ""
        /\ call = "show_training_info" =>
              /\ error \in {"TypeError", "ZeroDivisionError"}
              /\ error = "ZeroDivisionError" => data[2] = Int(0)
              /\ info = NoInfo

C3_Witness ==
    /\ call = "show_training_info"
    /\ workout_type = "RUN"
    /\ data = <<Int(1), Int(1), None>>
    /\ training.weight = None
    /\ error = "TypeError"

(***************************************************************************)
(* C4.  For every instance whose action count is a positive number,        *)
(* get_distance() returns action * step / 1000 with step 0.65 for Running  *)
(* and SportsWalking and 1.38 for Swimming, whatever the other attributes  *)
(* are; show_training_info reports the same distance.                      *)
(***************************************************************************)
C4_Step ==
    IF training.cls = "Swimming" THEN Dec(138, 100) ELSE Dec(65, 100)

C4_Expected == Div(Mul(training.action, C4_Step), Int(1000))

C4_Distance ==
    (training.cls \in Variants /\ Positive(training.action)) =>
        /\ call = "get_distance" =>
              error = "" /\ IsNum(ret) /\ NumEq(ret, C4_Expected)
        /\ (call = "show_training_info" /\ error = "") =>
              NumEq(info.distance, C4_Expected)

C4_Witness ==
    /\ call = "get_distance"
    /\ training.cls = "Swimming"
    /\ training.action = Int(2)
    /\ training.duration = Int(0)
    /\ NumEq(ret, Dec(276, 100000))

(***************************************************************************)
(* C5.  For a Swimming instance with a positive duration, get_mean_speed() *)
(* is length_pool * count_pool / 1000 / duration and the calories are      *)
(* (mean_speed + 1.1) * 2 * weight * duration; neither changes when only   *)
(* the action count changes, while the summary's distance is               *)
(* action * 1.38 / 1000.  For 720, 1, 80, 25, 40 the mean speed is 1.0 and *)
(* the calories are 336.0.                                                 *)
(***************************************************************************)
C5_Speed ==
    Div(Div(Mul(training.length_pool, training.count_pool), Int(1000)),
        training.duration)

C5_Calories ==
    Mul(Mul(Mul(Add(C5_Speed, Dec(11, 10)), Int(2)), training.weight),
        training.duration)

C5_OtherAction(a) == [training EXCEPT !.action = a]

C5_SwimmingSpeed ==
    (/\ training.cls = "Swimming"
     /\ Positive(training.duration)
     /\ IsNum(training.length_pool) /\ IsNum(training.count_pool)) =>
        /\ call = "get_mean_speed" =>
              error = "" /\ IsNum(ret) /\ NumEq(ret, C5_Speed)
        /\ (call = "get_spent_calories" /\ IsNum(training.weight)) =>
              error = "" /\ IsNum(ret) /\ NumEq(ret, C5_Calories)
        /\ \A a \in Readings \cup {Int(720)} :
              /\ get_mean_speed(C5_OtherAction(a)) = get_mean_speed(training)
              /\ get_spent_calories(C5_OtherAction(a))
                    = get_spent_calories(training)
        /\ (call = "show_training_info" /\ error = "") =>
              /\ NumEq(info.speed, C5_Speed)
              /\ NumEq(info.calories, C5_Calories)
              /\ NumEq(info.distance,
                       Div(Mul(training.action, Dec(138, 100)), Int(1000)))
              /\ data = <<Int(720), Int(1), Int(80), Int(25), Int(40)>> =>
                    /\ NumEq(info.speed, Int(1))
                    /\ NumEq(info.calories, Int(336))

C5_Witness ==
    /\ call = "show_training_info"
    /\ workout_type = "SWM"
    /\ data = <<Int(720), Int(1), Int(80), Int(25), Int(40)>>
    /\ error = ""
    /\ NumEq(info.speed, Int(1))
    /\ NumEq(info.calories, Int(336))
    /\ NumEq(info.distance, Dec(9936, 10000))
    /\ ~NumEq(info.speed, info.distance)

(***************************************************************************)
(* C6.  As claimed: the summary of Running(15000, 1, 75) has distance      *)
(* 9.75, mean speed 9.75 and calories                                      *)
(* (18 * mean_speed + 1.79) * weight / 1000 * (duration * 60), about       *)
(* 790.92 (to the two decimals given).                                     *)
(***************************************************************************)
C6_Case ==
    /\ call = "show_training_info"
    /\ training.cls = "Running"
    /\ data = <<Int(15000), Int(1), Int(75)>>

C6_Formula ==
    Mul(Div(Mul(Add(Mul(Int(18), info.speed), Dec(179, 100)), Int(75)),
            Int(1000)),
        Mul(Int(1), Int(60)))

C6_RunningAbout790 ==
    C6_Case =>
        /\ error = ""
        /\ NumEq(info.distance, Dec(975, 100))
        /\ NumEq(info.speed, Dec(975, 100))
        /\ NumEq(info.calories, C6_Formula)
        /\ Near(info.calories, Dec(79092, 100), Dec(5, 1000))

(***************************************************************************)
(* C6, amended.  The summary of Running(15000, 1, 75) has distance 9.75,   *)
(* mean speed 9.75 and calories                                            *)
(* (18 * mean_speed + 1.79) * weight / 1000 * (duration * 60), which is    *)
(* 797.805.                                                                *)
(***************************************************************************)
C6_Running797 ==
    C6_Case =>
        /\ error = ""
        /\ NumEq(info.distance, Dec(975, 100))
        /\ NumEq(info.speed, Dec(975, 100))
        /\ NumEq(info.calories, C6_Formula)
        /\ NumEq(info.calories, Dec(797805, 1000))

C6_Witness == C6_Case /\ error = "" /\ NumEq(info.calories, Dec(797805, 1000))

(***************************************************************************)
(* C7.  As claimed: the summary of SportsWalking(9000, 1, 75, 180) has     *)
(* distance 5.85, mean speed 5.85 and calories                             *)
(* (0.035 * weight + (mean_speed * 0.278)^2 / (height / 100) * 0.029       *)
(* * weight) * (duration * 60), about 163.97 (to the two decimals given).  *)
(***************************************************************************)
C7_Case ==
    /\ call = "show_training_info"
    /\ training.cls = "SportsWalking"
    /\ data = <<Int(9000), Int(1), Int(75), Int(180)>>

C7_Formula ==
    Mul(Add(Mul(Dec(35, 1000), Int(75)),
            Mul(Mul(Div(Square(Mul(info.speed, Dec(278, 1000))),
                        Div(Int(180), Int(100))),
                    Dec(29, 1000)),
                Int(75))),
        Mul(Int(1), Int(60)))

C7_WalkingAbout163 ==
    C7_Case =>
        /\ error = ""
        /\ NumEq(info.distance, Dec(585, 100))
        /\ NumEq(info.speed, Dec(585, 100))
        /\ NumEq(info.calories, C7_Formula)
        /\ Near(info.calories, Dec(16397, 100), Dec(5, 1000))

(***************************************************************************)
(* C7, amended.  The summary of SportsWalking(9000, 1, 75, 180) has        *)
(* distance 5.85, mean speed 5.85 and calories given by the same formula,  *)
(* which is 349.251747525, about 349.25.                                   *)
(***************************************************************************)
C7_Walking349 ==
    C7_Case =>
        /\ error = ""
        /\ NumEq(info.distance, Dec(585, 100))
        /\ NumEq(info.speed, Dec(585, 100))
        /\ NumEq(info.calories, C7_Formula)
        /\ NumEq(info.calories, Decimal(349, 251747525, 1000000000))
        /\ Near(info.calories, Dec(34925, 100), Dec(5, 1000))

C7_Witness ==
    /\ C7_Case
    /\ error = ""
    /\ NumEq(info.calories, Decimal(349, 251747525, 1000000000))

(***************************************************************************)
(* C8.  As claimed: get_spent_calories() and show_training_info() on a     *)
(* base Training built directly raise NotImplementedError, which is no     *)
(* InvalidInputDataError and is not turned into one, and build no record;  *)
(* on Running, SportsWalking and Swimming the same calls never raise       *)
(* NotImplementedError.  (Numeric arguments, as the constructor declares.) *)
(***************************************************************************)
C8_BaseCall ==
    /\ training.cls = "Training"
    /\ call \in {"get_spent_calories", "show_training_info"}

C8_VariantsOverride == training.cls \in Variants => error # "NotImplementedError"

C8_BaseUnimplemented ==
    /\ (C8_BaseCall /\ AllNumbers) =>
          /\ error = "NotImplementedError"
          /\ cause = ""
          /\ info = NoInfo
    /\ C8_VariantsOverride

(***************************************************************************)
(* C8, amended.  get_spent_calories() on a base Training always raises     *)
(* NotImplementedError.  show_training_info() on it raises                 *)
(* NotImplementedError when the action count and the duration are numbers  *)
(* and the duration is not zero; with a zero duration get_mean_speed,      *)
(* which it calls first, raises ZeroDivisionError instead.  In every case  *)
(* no record is built and the error is no InvalidInputDataError and is not *)
(* turned into one; the three variants never raise NotImplementedError.    *)
(***************************************************************************)
C8_BaseFails ==
    /\ (training.cls = "Training" /\ call = "get_spent_calories") =>
          error = "NotImplementedError"
    /\ (training.cls = "Training" /\ call = "show_training_info") =>
          /\ error \notin {"", "InvalidInputDataError"}
          /\ (IsNum(training.action) /\ Positive(training.duration)) =>
                error = "NotImplementedError"
          /\ (AllNumbers /\ training.duration = Int(0)) =>
                error = "ZeroDivisionError"
    /\ C8_BaseCall => cause = "" /\ info = NoInfo /\ ret = Absent
    /\ C8_VariantsOverride

C8_Witness ==
    /\ training.cls = "Training"
    /\ call = "show_training_info"
    /\ training.duration = Int(1)
    /\ error = "NotImplementedError"
    /\ info = NoInfo

(***************************************************************************)
(* C9.  get_message() returns one string of the fixed template: the type,  *)
(* the duration, the distance, the mean speed and the calories in this     *)
(* order, each after its label; the type is the class name that            *)
(* show_training_info recorded, and each number is written with exactly    *)
(* three digits after the decimal point and is the record's value rounded  *)
(* to the nearest thousandth.                                              *)
(***************************************************************************)
C9_Digits == {DigitChar[i] : i \in 1..10}

C9_Pos(label) == CHOOSE i \in 1..Len(message) : message[i] = label

\* the pieces between a label and the piece at position next
C9_Field(label, next) == SubSeq(message, C9_Pos(label) + 1, next - 1)

C9_ThreeDecimals(f) ==
    /\ Len(f) >= 5
    /\ f[Len(f) - 3] = "."
    /\ \A i \in 1..Len(f) : i # Len(f) - 3 => f[i] \in C9_Digits

C9_DigitValue(c) == CHOOSE x \in 0..9 : DigitChar[x + 1] = c

\* the number of thousandths the text f of a number stands for
RECURSIVE C9_Thousandths(_, _)
C9_Thousandths(f, i) ==
    IF i = 0 THEN <<>>
    ELSE IF f[i] = "." THEN C9_Thousandths(f, i - 1)
    ELSE BAdd(BTimes(C9_Thousandths(f, i - 1), 10),
              BFromNat(C9_DigitValue(f[i])))

\* f has three decimals and is within half a thousandth of v
C9_Renders(f, v) ==
    /\ C9_ThreeDecimals(f)
    /\ Near(Number(C9_Thousandths(f, Len(f)), BFromNat(1000)), v, Dec(5, 10000))

C9_Labels ==
    <<LabelType, LabelDuration, LabelDistance, LabelSpeed, LabelCalories>>

C9_Message ==
    (call = "get_message") =>
        /\ error = ""
        /\ \A i \in 1..5 :
              Cardinality({j \in 1..Len(message) : message[j] = C9_Labels[i]}) = 1
        /\ C9_Pos(LabelType) = 1
        /\ message[2] = info.training_type
        /\ info.training_type = training.cls
        /\ C9_Pos(LabelDuration) = 3
        /\ C9_Pos(LabelDuration) < C9_Pos(LabelDistance)
        /\ C9_Pos(LabelDistance) < C9_Pos(LabelSpeed)
        /\ C9_Pos(LabelSpeed) < C9_Pos(LabelCalories)
        /\ C9_Pos(LabelCalories) < Len(message)
        /\ message[Len(message)] = LabelEnd
        /\ C9_Renders(C9_Field(LabelDuration, C9_Pos(LabelDistance)),
                      info.duration)
        /\ C9_Renders(C9_Field(LabelDistance, C9_Pos(LabelSpeed)),
                      info.distance)
        /\ C9_Renders(C9_Field(LabelSpeed, C9_Pos(LabelCalories)), info.speed)
        /\ C9_Renders(C9_Field(LabelCalories, Len(message)), info.calories)

C9_Witness ==
    /\ call = "get_message"
    /\ data = <<Int(15000), Int(1), Int(75)>>
    /\ message = <<LabelType, "Running",
                   LabelDuration, "1", ".", "0", "0", "0",
                   LabelDistance, "9", ".", "7", "5", "0",
                   LabelSpeed, "9", ".", "7", "5", "0",
                   LabelCalories, "7", "9", "7", ".", "8", "0", "5",
                   LabelEnd>>

(***************************************************************************)
(* C10.  A zero duration is guarded nowhere.  With a recognized code, the  *)
(* right number of numeric arguments and duration 0, read_package raises   *)
(* nothing and returns the instance; get_distance() still returns; only    *)
(* get_mean_speed(), and with it get_spent_calories() and                  *)
(* show_training_info(), fails, with a ZeroDivisionError that is no        *)
(* InvalidInputDataError, for each of the three variants, and no record is *)
(* built.                                                                  *)
(***************************************************************************)
C10_Case ==
    /\ workout_type # ""
    /\ RightLength
    /\ AllNumbers
    /\ data[2] = Int(0)

C10_ZeroDuration ==
    C10_Case =>
        /\ training = ExpectedObject
        /\ call \in {"read_package", "get_distance"} => error = ""
        /\ call \in {"get_mean_speed", "get_spent_calories",
                     "show_training_info"} =>
              error = "ZeroDivisionError" /\ ret = Absent
        /\ cause = ""
        /\ info = NoInfo
        /\ call # "get_message"

C10_Witness ==
    /\ C10_Case
    /\ workout_type = "SWM"
    /\ training.cls = "Swimming"
    /\ call = "show_training_info"
    /\ error = "ZeroDivisionError"
    /\ info = NoInfo

=============================================================================
